---- MODULE Spec2Model ----
(***************************************************************************)
(* Model of the job-application backend: the /submit request handler and   *)
(* the resume field-inference functions (extractPersonalInfo,              *)
(* extractEducation, extractSkills, extractProjects).                      *)
(*                                                                         *)
(* JavaScript strings are sequences of one-character strings.  JavaScript  *)
(* values are records with a "kind" field.  A regular expression literal   *)
(* of the source is a syntax tree, and Exec runs it with the backtracking  *)
(* priorities of the JavaScript engine (ordered alternation, greedy and    *)
(* lazy quantifiers, lookahead, leftmost match).                           *)
(***************************************************************************)
EXTENDS Integers, Sequences, FiniteSets, TLC

----------------------------------------------------------------------------
(* Characters *)

UpperSeq == <<"A","B","C","D","E","F","G","H","I","J","K","L","M","N","O","P","Q","R","S","T","U","V","W","X","Y","Z">>
LowerSeq == <<"a","b","c","d","e","f","g","h","i","j","k","l","m","n","o","p","q","r","s","t","u","v","w","x","y","z">>
DigitSeq == <<"0","1","2","3","4","5","6","7","8","9">>

Upper == {UpperSeq[k] : k \in 1..26}
Lower == {LowerSeq[k] : k \in 1..26}
\* [a-z], [A-Z] and [a-zA-Z] under the i flag
Alpha == Upper \cup Lower
\* \d
Digit == {DigitSeq[k] : k \in 1..10}
\* \s, and the characters String.prototype.trim removes
Space == {" ", "\n", "\t", "\r"}

LowerMap == [c \in Upper |-> LowerSeq[CHOOSE k \in 1..26 : UpperSeq[k] = c]]
ToLower(c) == IF c \in Upper THEN LowerMap[c] ELSE c

----------------------------------------------------------------------------
(* Regular expressions: syntax *)

Lit(s) == [type |-> "lit", s |-> s]
Cls(S) == [type |-> "cls", set |-> S]
Cat(rs) == [type |-> "cat", rs |-> rs]
Alt(rs) == [type |-> "alt", rs |-> rs]
\* max = -1: unbounded
Rep(r, min, max, greedy) == [type |-> "rep", r |-> r, min |-> min, max |-> max, greedy |-> greedy]
Grp(k, r) == [type |-> "grp", k |-> k, r |-> r]
Ahead(r) == [type |-> "ahead", r |-> r]
EndOfInput == [type |-> "end"]
\* [\s\S]
AnyChar == [type |-> "any"]
\* . : any character but a line terminator
Dot == [type |-> "dot"]

Opt(r) == Rep(r, 0, 1, TRUE)
Star(r) == Rep(r, 0, -1, TRUE)
Plus(r) == Rep(r, 1, -1, TRUE)
LazyStar(r) == Rep(r, 0, -1, FALSE)
AtLeast(r, n) == Rep(r, n, -1, TRUE)
Times(r, n) == Rep(r, n, n, TRUE)
Between(r, m, n) == Rep(r, m, n, TRUE)

(* Regular expressions: matching.  M(r, t, i, caps) is the sequence of the *)
(* ways r matches t from position i, in the order the engine tries them;   *)
(* each way is the position after the match and the capture groups.        *)

NoCap == <<0, 0>>
NoCaps == <<NoCap, NoCap>>

LitAt(s, t, i) ==
    /\ i + Len(s) - 1 <= Len(t)
    /\ \A k \in 1..Len(s) : ToLower(t[i + k - 1]) = ToLower(s[k])

\* a node that matches exactly one character
OneChar(r) == r.type \in {"cls", "any", "dot"}
Takes(r, c) ==
    CASE r.type = "cls" -> c \in r.set
      [] r.type = "any" -> TRUE
      [] r.type = "dot" -> c \notin {"\n", "\r"}

\* the number of consecutive characters of t from position i that r takes
Run(r, t, i) ==
    CHOOSE n \in 0..(Len(t) + 1 - i) :
        /\ \A j \in i..(i + n - 1) : Takes(r, t[j])
        /\ (i + n <= Len(t) => ~Takes(r, t[i + n]))

Min(a, b) == IF a < b THEN a ELSE b

\* a repetition of a one-character node: every count from r.min to the run
\* (at most r.max), the longest first when greedy, the shortest first when lazy
RepOne(r, t, i, caps) ==
    LET run == Run(r.r, t, i)
        hi == IF r.max = -1 THEN run ELSE Min(run, r.max)
    IN  IF hi < r.min THEN <<>>
        ELSE [k \in 1..(hi - r.min + 1) |->
                [pos |-> IF r.greedy THEN i + hi - (k - 1) ELSE i + r.min + (k - 1),
                 caps |-> caps]]

RECURSIVE M(_, _, _, _), MCat(_, _, _, _), MAlt(_, _, _, _, _), MRep(_, _, _, _, _), Each(_, _, _, _, _), EachRep(_, _, _, _, _, _, _)

\* the ways r matches from each of xs[lo..hi], in order
Each(xs, r, t, lo, hi) ==
    IF lo > hi THEN <<>>
    ELSE IF lo = hi THEN M(r, t, xs[lo].pos, xs[lo].caps)
    ELSE LET mid == (lo + hi) \div 2
         IN  Each(xs, r, t, lo, mid) \o Each(xs, r, t, mid + 1, hi)

MCat(rs, j, t, xs) ==
    IF j > Len(rs) \/ xs = <<>> THEN xs
    ELSE MCat(rs, j + 1, t, Each(xs, rs[j], t, 1, Len(xs)))

MAlt(rs, j, t, i, caps) ==
    IF j > Len(rs) THEN <<>>
    ELSE M(rs[j], t, i, caps) \o MAlt(rs, j + 1, t, i, caps)

\* xs: the ways one more iteration matches from position i; an iteration
\* that consumes nothing ends the repetition
EachRep(xs, r, t, i, n, lo, hi) ==
    IF lo > hi THEN <<>>
    ELSE IF lo = hi
         THEN (IF xs[lo].pos > i THEN MRep(r, t, xs[lo].pos, xs[lo].caps, n) ELSE <<>>)
    ELSE LET mid == (lo + hi) \div 2
         IN  EachRep(xs, r, t, i, n, lo, mid) \o EachRep(xs, r, t, i, n, mid + 1, hi)

\* n: the iterations matched so far
MRep(r, t, i, caps, n) ==
    LET xs == M(r.r, t, i, caps)
        more == IF r.max = -1 \/ n < r.max
                THEN EachRep(xs, r, t, i, n + 1, 1, Len(xs))
                ELSE <<>>
        here == IF n >= r.min THEN <<[pos |-> i, caps |-> caps]>> ELSE <<>>
    IN  IF r.greedy THEN more \o here ELSE here \o more

M(r, t, i, caps) ==
    CASE r.type = "lit" ->
           IF LitAt(r.s, t, i) THEN <<[pos |-> i + Len(r.s), caps |-> caps]>> ELSE <<>>
      [] OneChar(r) ->
           IF i <= Len(t) /\ Takes(r, t[i]) THEN <<[pos |-> i + 1, caps |-> caps]>> ELSE <<>>
      [] r.type = "cat" -> MCat(r.rs, 1, t, <<[pos |-> i, caps |-> caps]>>)
      [] r.type = "alt" -> MAlt(r.rs, 1, t, i, caps)
      [] r.type = "rep" -> IF OneChar(r.r) THEN RepOne(r, t, i, caps) ELSE MRep(r, t, i, caps, 0)
      [] r.type = "grp" ->
           LET xs == M(r.r, t, i, caps)
           IN  [k \in 1..Len(xs) |->
                  [pos |-> xs[k].pos, caps |-> [xs[k].caps EXCEPT ![r.k] = <<i, xs[k].pos>>]]]
      [] r.type = "ahead" ->
           IF M(r.r, t, i, caps) # <<>> THEN <<[pos |-> i, caps |-> caps]>> ELSE <<>>
      [] r.type = "end" ->
           IF i = Len(t) + 1 THEN <<[pos |-> i, caps |-> caps]>> ELSE <<>>

NoMatch == [matched |-> FALSE]

RECURSIVE ExecFrom(_, _, _, _)
\* the match from the first position of lo..hi that has one
ExecFrom(r, t, lo, hi) ==
    IF lo = hi
    THEN LET xs == M(r, t, lo, NoCaps)
         IN  IF xs # <<>>
             THEN [matched |-> TRUE, from |-> lo, to |-> xs[1].pos, caps |-> xs[1].caps]
             ELSE NoMatch
    ELSE LET mid == (lo + hi) \div 2
             m == ExecFrom(r, t, lo, mid)
         IN  IF m.matched THEN m ELSE ExecFrom(r, t, mid + 1, hi)

\* String.prototype.match with a regular expression without the g flag
Exec(r, t) == ExecFrom(r, t, 1, Len(t) + 1)

\* m[0], m[k]
Whole(t, m) == SubSeq(t, m.from, m.to - 1)
Group(t, m, k) == SubSeq(t, m.caps[k][1], m.caps[k][2] - 1)

----------------------------------------------------------------------------
(* String operations *)

\* String.prototype.trim
Trim(s) ==
    LET keep == {i \in 1..Len(s) : s[i] \notin Space}
    IN  IF keep = {} THEN <<>>
        ELSE SubSeq(s, CHOOSE i \in keep : \A j \in keep : i <= j,
                       CHOOSE i \in keep : \A j \in keep : i >= j)

\* s.split('\n'): line k lies between the (k-1)-th and the k-th line feed
Split(s) ==
    LET feeds == {i \in 1..Len(s) : s[i] = "\n"}
        Feed(k) == IF k = 0 THEN 0
                   ELSE IF k > Cardinality(feeds) THEN Len(s) + 1
                   ELSE CHOOSE i \in feeds : Cardinality({j \in feeds : j < i}) = k - 1
    IN  [k \in 1..(Cardinality(feeds) + 1) |-> SubSeq(s, Feed(k - 1) + 1, Feed(k) - 1)]

\* .map(line => line.trim())
MapTrim(ls) == [k \in 1..Len(ls) |-> Trim(ls[k])]
\* .filter(line => line.length > 0)
Filter(ls) == SelectSeq(ls, LAMBDA l : Len(l) > 0)

RECURSIVE Join(_)
\* .join('\n')
Join(ls) ==
    IF ls = <<>> THEN <<>>
    ELSE IF Len(ls) = 1 THEN ls[1]
    ELSE ls[1] \o <<"\n">> \o Join(Tail(ls))

----------------------------------------------------------------------------
(* JavaScript values *)

Str(s) == [kind |-> "string", chars |-> s]
Num(n) == [kind |-> "number", n |-> n]
Null == [kind |-> "null"]
Undefined == [kind |-> "undefined"]
\* an object with the properties props, each a key and a number
Obj(props) == [kind |-> "object", props |-> props]

Return(v) == [kind |-> "return", value |-> v]
\* a TypeError thrown by a method call on a value that has no such method
Throw == [kind |-> "throw", error |-> "TypeError"]

RECURSIVE Digits(_), Props(_)
\* the decimal digits of a natural number
Digits(n) == IF n < 10 THEN <<DigitSeq[n + 1]>> ELSE Digits(n \div 10) \o <<DigitSeq[(n % 10) + 1]>>
Props(ps) ==
    IF ps = <<>> THEN <<>>
    ELSE <<"\"">> \o ps[1].key \o <<"\"", ":">> \o Digits(ps[1].n)
         \o (IF Len(ps) > 1 THEN <<",">> ELSE <<>>) \o Props(Tail(ps))
\* JSON.stringify of a value that is not a string: undefined has no JSON text
JSONStringify(v) ==
    CASE v.kind = "number" -> Str(Digits(v.n))
      [] v.kind = "null" -> Str(<<"n","u","l","l">>)
      [] v.kind = "object" -> Str(<<"{">> \o Props(v.props) \o <<"}">>)
      [] v.kind = "undefined" -> Undefined

\* if (typeof text !== 'string') text = JSON.stringify(text)
Coerce(v) == IF v.kind # "string" THEN JSONStringify(v) ELSE v

----------------------------------------------------------------------------
(* extractPersonalInfo, server.js *)

NameLabels == <<Lit(<<"N","a","m","e">>), Lit(<<"N","A","M","E">>)>>
NameWord == Cat(<<Cls(Alpha), Plus(Cls(Alpha))>>)
\* /(Name|NAME)?\s*[:\-]?\s*([A-Z][a-z]+(?:\s+[A-Z][a-z]+)+)/i
nameRegex ==
    Cat(<<Opt(Grp(1, Alt(NameLabels))), Star(Cls(Space)), Opt(Cls({":", "-"})), Star(Cls(Space)),
          Grp(2, Cat(<<NameWord, Plus(Cat(<<Plus(Cls(Space)), NameWord>>))>>))>>)

EmailLabels == <<Lit(<<"E","m","a","i","l">>), Lit(<<"E","M","A","I","L">>)>>
\* [a-zA-Z0-9._%+-]+@[a-zA-Z0-9.-]+\.[a-zA-Z]{2}: two letters end the address
AddressTwoLetters ==
    Cat(<<Plus(Cls(Alpha \cup Digit \cup {".", "_", "%", "+", "-"})), Cls({"@"}),
          Plus(Cls(Alpha \cup Digit \cup {".", "-"})), Cls({"."}), Times(Cls(Alpha), 2)>>)

\* [a-zA-Z0-9._%+-]+@[a-zA-Z0-9.-]+\.[a-zA-Z]{2,}
Address ==
    Cat(<<Plus(Cls(Alpha \cup Digit \cup {".", "_", "%", "+", "-"})), Cls({"@"}),
          Plus(Cls(Alpha \cup Digit \cup {".", "-"})), Cls({"."}), AtLeast(Cls(Alpha), 2)>>)
\* /(Email|EMAIL)?\s*[:\-]?\s*(<address>)/i
emailRegex ==
    Cat(<<Opt(Grp(1, Alt(EmailLabels))), Star(Cls(Space)), Opt(Cls({":", "-"})), Star(Cls(Space)),
          Grp(2, Address)>>)
\* /(<address>)/i
emailFallbackRegex == Grp(1, Address)

PhoneLabels ==
    <<Lit(<<"P","h","o","n","e"," ","N","u","m","b","e","r">>),
      Lit(<<"P","h","o","n","e"," ","n","u","m","b","e","r">>),
      Lit(<<"C","o","n","t","a","c","t"," ","N","u","m","b","e","r">>),
      Lit(<<"C","o","n","t","a","c","t"," ","n","u","m","b","e","r">>),
      Lit(<<"C","o","n","t","a","c","t">>), Lit(<<"C","O","N","T","A","C","T">>),
      Lit(<<"P","h","o","n","e">>), Lit(<<"P","H","O","N","E">>)>>
\* [-.\s]
PhoneSep == Cls({"-", "."} \cup Space)
\* (\+?\d{1,3}[-.\s]?)?\(?\d{3}\)?[-.\s]?\d{3}[-.\s]?\d{4}
Number ==
    Cat(<<Opt(Grp(2, Cat(<<Opt(Cls({"+"})), Between(Cls(Digit), 1, 3), Opt(PhoneSep)>>))),
          Opt(Cls({"("})), Times(Cls(Digit), 3), Opt(Cls({")"})), Opt(PhoneSep),
          Times(Cls(Digit), 3), Opt(PhoneSep), Times(Cls(Digit), 4)>>)
\* /(Phone Number|...|PHONE)?\s*[:\-]?\s*<number>/i
phoneRegex ==
    Cat(<<Opt(Grp(1, Alt(PhoneLabels))), Star(Cls(Space)), Opt(Cls({":", "-"})), Star(Cls(Space)),
          Number>>)
\* /(Phone Number|...|PHONE)[:\-]?\s*/i
phoneLabelRegex == Cat(<<Grp(1, Alt(PhoneLabels)), Opt(Cls({":", "-"})), Star(Cls(Space))>>)
\* /<number>/i
phoneFallbackRegex == Number

\* s.replace(r, ''): the first match of r is removed
Remove(s, r) ==
    LET m == Exec(r, s)
    IN  IF m.matched THEN SubSeq(s, 1, m.from - 1) \o SubSeq(s, m.to, Len(s)) ELSE s

\* the name, when nameRegex does not match; person is
\* doc.match('#Person').out('text')
NameFallback(text, person) ==
    IF person # <<>> THEN Str(Trim(person))
    ELSE LET lines == Filter(MapTrim(Split(text)))
         IN  IF Len(lines) > 0 THEN Str(lines[1]) ELSE Str(<<>>)

Name(text, person) ==
    LET nameMatch == Exec(nameRegex, text)
    IN  IF nameMatch.matched THEN Str(Trim(Group(text, nameMatch, 2)))
        ELSE NameFallback(text, person)

Email(text) ==
    LET emailMatch == Exec(emailRegex, text)
        emailFallback == Exec(emailFallbackRegex, text)
    IN  IF emailMatch.matched THEN Str(Trim(Group(text, emailMatch, 2)))
        ELSE IF emailFallback.matched THEN Str(Trim(Whole(text, emailFallback)))
        ELSE Str(<<>>)

Phone(text) ==
    LET phoneMatch == Exec(phoneRegex, text)
        phoneFallback == Exec(phoneFallbackRegex, text)
    IN  IF phoneMatch.matched THEN Str(Trim(Remove(Whole(text, phoneMatch), phoneLabelRegex)))
        ELSE IF phoneFallback.matched THEN Str(Trim(Whole(text, phoneFallback)))
        ELSE Str(<<>>)

\* v: the argument; nlp: what the tagger finds in the text
extractPersonalInfo(v, nlp) ==
    LET text == Coerce(v)
    IN  IF text.kind # "string" THEN Throw
        ELSE Return([name |-> Name(text.chars, nlp.person),
                     email |-> Email(text.chars),
                     phone |-> Phone(text.chars)])

----------------------------------------------------------------------------
(* extractEducation, extractSkills, extractProjects, server.js *)

Education == Lit(<<"E","d","u","c","a","t","i","o","n">>)
Educations == Lit(<<"E","d","u","c","a","t","i","o","n","s">>)
EDUCATION == Lit(<<"E","D","U","C","A","T","I","O","N">>)
EDUCATIONS == Lit(<<"E","D","U","C","A","T","I","O","N","S">>)
AcademicBackground == Lit(<<"A","c","a","d","e","m","i","c"," ","B","a","c","k","g","r","o","u","n","d">>)
ACADEMICBACKGROUND == Lit(<<"A","C","A","D","E","M","I","C"," ","B","A","C","K","G","R","O","U","N","D">>)
Skill == Lit(<<"S","k","i","l","l">>)
Skills == Lit(<<"S","k","i","l","l","s">>)
SKILL == Lit(<<"S","K","I","L","L">>)
SKILLS == Lit(<<"S","K","I","L","L","S">>)
TechnicalSkill == Lit(<<"T","e","c","h","n","i","c","a","l"," ","S","k","i","l","l">>)
TechnicalSkills == Lit(<<"T","e","c","h","n","i","c","a","l"," ","S","k","i","l","l","s">>)
TECHNICALSKILL == Lit(<<"T","E","C","H","N","I","C","A","L"," ","S","K","I","L","L">>)
TECHNICALSKILLS == Lit(<<"T","E","C","H","N","I","C","A","L"," ","S","K","I","L","L","S">>)
Qualifications == Lit(<<"Q","u","a","l","i","f","i","c","a","t","i","o","n","s">>)
QUALIFICATIONS == Lit(<<"Q","U","A","L","I","F","I","C","A","T","I","O","N","S">>)
Project == Lit(<<"P","r","o","j","e","c","t">>)
Projects == Lit(<<"P","r","o","j","e","c","t","s">>)
PROJECT == Lit(<<"P","R","O","J","E","C","T">>)
PROJECTS == Lit(<<"P","R","O","J","E","C","T","S">>)
WorkExperience == Lit(<<"W","o","r","k"," ","E","x","p","e","r","i","e","n","c","e">>)
WORKEXPERIENCE == Lit(<<"W","O","R","K"," ","E","X","P","E","R","I","E","N","C","E">>)

\* /(<headers>)\s*([\s\S]*?)(?=<stops>|$)/i
SectionRegex(headers, stops) ==
    Cat(<<Grp(1, Alt(headers)), Star(Cls(Space)), Grp(2, LazyStar(AnyChar)),
          Ahead(Alt(stops \o <<EndOfInput>>))>>)

EducationHeaders == <<Education, Educations, EDUCATION, EDUCATIONS, AcademicBackground, ACADEMICBACKGROUND>>
\* (?=Skills|Projects|Qualifications|$)
EducationStops == <<Skills, Projects, Qualifications>>
educationRegex == SectionRegex(EducationHeaders, EducationStops)

SkillsHeaders ==
    <<Skill, Skills, SKILL, SKILLS, TechnicalSkill, TechnicalSkills, TECHNICALSKILL, TECHNICALSKILLS,
      Qualifications, QUALIFICATIONS>>
\* (?=Projects|Education|$)
SkillsStops == <<Projects, Education>>
skillsRegex == SectionRegex(SkillsHeaders, SkillsStops)

ProjectsHeaders == <<Project, Projects, PROJECT, PROJECTS, WorkExperience, WORKEXPERIENCE>>
\* (?=Education|Skills|Qualifications|$)
ProjectsStops == <<Education, Skills, Qualifications>>
projectsRegex == SectionRegex(ProjectsHeaders, ProjectsStops)

\* [...xs]: every element, repeated ones too
UniqueKeepsAll(xs, seen) == xs

RECURSIVE Unique(_, _)
\* [...new Set(xs)]: each distinct element once, in the order of first occurrence
Unique(xs, seen) ==
    IF xs = <<>> THEN <<>>
    ELSE IF Head(xs) \in seen THEN Unique(Tail(xs), seen)
    ELSE <<Head(xs)>> \o Unique(Tail(xs), seen \cup {Head(xs)})

\* m[k].trim().split('\n').map(line => line.trim()).filter(line => line.length > 0)
Entries(text, m, k) == Filter(MapTrim(Split(Trim(Group(text, m, k)))))

\* the section with the lines of the whole text when the tagger finds
\* nothing and no header matches
SectionOrText(text, found, regex) ==
    LET unique == Unique(found.tags \o found.heads, {})
        match == Exec(regex, text)
    IN  IF Len(unique) # 0 THEN unique
        ELSE IF match.matched THEN Entries(text, match, 2)
        ELSE Filter(MapTrim(Split(text)))

\* found: the tagger's matches, [tags |-> doc.match('#Tag').out('array'),
\* heads |-> doc.match('<headers>').out('array')]
Section(text, found, regex) ==
    LET unique == Unique(found.tags \o found.heads, {})
        match == Exec(regex, text)
    IN  IF Len(unique) = 0 /\ match.matched THEN Entries(text, match, 2) ELSE unique

extractEducation(v, nlp) ==
    LET text == Coerce(v)
    IN  IF text.kind # "string" THEN Throw
        ELSE Return(Section(text.chars, nlp.education, educationRegex))

extractSkills(v, nlp) ==
    LET text == Coerce(v)
    IN  IF text.kind # "string" THEN Throw
        ELSE Return(Section(text.chars, nlp.skills, skillsRegex))

extractProjects(v, nlp) ==
    LET text == Coerce(v)
    IN  IF text.kind # "string" THEN Throw
        ELSE Return(Section(text.chars, nlp.projects, projectsRegex))

----------------------------------------------------------------------------
(* part_000, second program (lines 281-644): the functions of server.js    *)
(* without the coercion of the argument                                    *)

\* the name, when nameRegex does not match: lines[0] of an empty array is
\* undefined
NameFallback_part000(text, person) ==
    IF person # <<>> THEN Str(Trim(person))
    ELSE LET lines == Filter(MapTrim(Split(text)))
         IN  IF Len(lines) > 0 THEN Str(lines[1]) ELSE Undefined

Name_part000(text, person) ==
    LET nameMatch == Exec(nameRegex, text)
    IN  IF nameMatch.matched THEN Str(Trim(Group(text, nameMatch, 2)))
        ELSE NameFallback_part000(text, person)

extractPersonalInfo_part000(v, nlp) ==
    IF v.kind # "string" THEN Throw
    ELSE Return([name |-> Name_part000(v.chars, nlp.person),
                 email |-> Email(v.chars),
                 phone |-> Phone(v.chars)])

extractEducation_part000(v, nlp) ==
    IF v.kind # "string" THEN Throw
    ELSE Return(Section(v.chars, nlp.education, educationRegex))

extractSkills_part000(v, nlp) ==
    IF v.kind # "string" THEN Throw
    ELSE Return(Section(v.chars, nlp.skills, skillsRegex))

extractProjects_part000(v, nlp) ==
    IF v.kind # "string" THEN Throw
    ELSE Return(Section(v.chars, nlp.projects, projectsRegex))

----------------------------------------------------------------------------
(* part_001: the functions without the tagger *)

\* /(?:<labels>)\s*[:-]?\s*(.*)/i
LabelRegex(labels) ==
    Cat(<<Alt(labels), Star(Cls(Space)), Opt(Cls({":", "-"})), Star(Cls(Space)), Grp(1, Star(Dot))>>)

\* text.match(r)?.[1]?.trim() || ''
Labeled(text, r) ==
    LET m == Exec(r, text)
    IN  IF m.matched THEN Trim(Group(text, m, 1)) ELSE <<>>

\* the first line, trimmed, when no name follows a label
Name_part001(text) ==
    LET name == Labeled(text, LabelRegex(NameLabels))
        lines == MapTrim(Split(text))
    IN  IF name # <<>> THEN name
        ELSE IF Len(lines) > 0 THEN lines[1] ELSE <<>>

extractPersonalInfo_part001(v) ==
    IF v.kind # "string" THEN Throw
    ELSE Return([name |-> Str(Name_part001(v.chars)),
                 email |-> Str(Labeled(v.chars, LabelRegex(EmailLabels))),
                 phone |-> Str(Labeled(v.chars, LabelRegex(<<Lit(<<"P","h","o","n","e">>), Lit(<<"P","H","O","N","E">>)>>)))])

\* the entries of group k of the match, [] without a match
Section_part001(text, regex, k) ==
    LET match == Exec(regex, text)
    IN  IF ~match.matched THEN <<>> ELSE Filter(MapTrim(Split(Trim(Group(text, match, k)))))

\* match[1]: the header
extractEducation_part001(v) ==
    IF v.kind # "string" THEN Throw
    ELSE Return(Section_part001(v.chars,
                  SectionRegex(<<Education, Educations, EDUCATION, EDUCATIONS>>, <<Skills, Projects, Qualifications>>), 1))

extractSkills_part001(v) ==
    IF v.kind # "string" THEN Throw
    ELSE Return(Section_part001(v.chars,
                  SectionRegex(<<Skill, Skills, SKILL, SKILLS, Qualifications>>, <<Projects, Education>>), 2))

\* match[1]: the header
extractProjects_part001(v) ==
    IF v.kind # "string" THEN Throw
    ELSE Return(Section_part001(v.chars,
                  SectionRegex(<<Project, Projects, PROJECT, PROJECTS>>, <<Education, Skills, Qualifications>>), 1))

----------------------------------------------------------------------------
(* Inputs *)

\* the most lines of a text
MaxLines == 3

RECURSIVE LineSeqs(_, _)
\* the sequences of at most n lines of the set lines
LineSeqs(lines, n) ==
    IF n = 0 THEN {<<>>}
    ELSE LET shorter == LineSeqs(lines, n - 1)
         IN  shorter \cup {Append(ls, l) : ls \in shorter, l \in lines}

\* the texts of at most MaxLines lines of the set lines
TextsOf(lines) == {Join(ls) : ls \in LineSeqs(lines, MaxLines)}

LSkills == <<"S","k","i","l","l","s">>
LPython == <<"P","y","t","h","o","n">>
LGo == <<"G","o">>
LEducation == <<"E","d","u","c","a","t","i","o","n">>
LWorkExperience == <<"W","o","r","k"," ","E","x","p","e","r","i","e","n","c","e">>
LNameJaneDoe == <<"N","a","m","e",":"," ","J","a","n","e"," ","D","o","e">>
LJaneDoe == <<"J","a","n","e"," ","D","o","e">>
LJohnSmith == <<"J","o","h","n"," ","S","m","i","t","h">>
LAnnLee == <<"A","n","n"," ","L","e","e">>
LBSc == <<"B","S","c">>
Ljane == <<"j","a","n","e">>
LBlank == <<" ">>

\* resumes with section headers and entries
SectionLines == {LSkills, LGo, LEducation, LWorkExperience}
\* resumes with names, blank lines and other lines
PersonalLines == {LNameJaneDoe, LJohnSmith, Ljane, LBlank}
LBobEmail == <<"b","o","b","@","y",".","i","o">>
LAnnEmail == <<"a","n","n","@","y",".","i","o">>
LEmailAnn == <<"E","m","a","i","l",":"," ">> \o LAnnEmail
LJaneEmail == <<"j","a","n","e",".","d","o","e","@","e","x","a","m","p","l","e",".","c","o","m">>
LPhoneNumber == <<"5","5","5","-","1","2","3","-","4","5","6","7">>
LPhoneSpaced == <<"P","h","o","n","e"," ",":"," ">> \o LPhoneNumber
\* resumes with addresses and phone numbers, labeled and not
ContactLines == {LBobEmail, LEmailAnn, LJaneEmail, LPhoneSpaced}
\* the example of the specification: "Skills\nPython\nGo\nEducation\n..."
SkillsExample == Join(<<LSkills, LPython, LGo, LEducation, LBSc>>)

Texts == TextsOf(SectionLines) \cup TextsOf(PersonalLines) \cup TextsOf(ContactLines) \cup {SkillsExample}

\* the values passed as text: strings and values that are not strings
Args ==
    {Str(t) : t \in Texts}
    \cup {Num(42), Num(1234567890), Null, Undefined, Obj(<<>>), Obj(<<[key |-> <<"a">>, n |-> 1]>>)}

NoFound == [tags |-> <<>>, heads |-> <<>>]
\* the tagger finds nothing
NoTagging == [person |-> <<>>, education |-> NoFound, skills |-> NoFound, projects |-> NoFound]
\* the span s occurs in the text t
Occurs(s, t) == \E i \in 1..(Len(t) - Len(s) + 1) : SubSeq(t, i, i + Len(s) - 1) = s
\* the spans of xs that occur in t
Spans(t, xs) == SelectSeq(xs, LAMBDA s : Occurs(s, t))
\* a tagger that finds in t a person and spans of each section, some of
\* them twice
Tagger(t) ==
    [person |-> IF Occurs(Ljane, t) THEN Ljane ELSE <<>>,
     education |-> [tags |-> Spans(t, <<LBSc, LEducation>>), heads |-> Spans(t, <<LEducation, LEducation>>)],
     skills |-> [tags |-> Spans(t, <<LGo, LPython, LGo>>), heads |-> Spans(t, <<LSkills>>)],
     projects |-> [tags |-> <<>>, heads |-> Spans(t, <<LWorkExperience>>)]]

\* the programs of the repository: server.js, the second program of
\* part_000 (lines 281-644) and part_001
Files == {"server.js", "part_000", "part_001"}

\* what the tagger of the program f may find in the value v: nothing, or
\* spans of its text; part_001 has no tagger
Nlps(f, v) ==
    IF f = "part_001" \/ Coerce(v).kind # "string" THEN {NoTagging}
    ELSE {NoTagging, Tagger(Coerce(v).chars)}

----------------------------------------------------------------------------
(* State *)

VARIABLES
    file,      \* the program that runs
    arg,       \* the value passed as text to an inference function
    nlp,       \* what the tagger finds in it
    last,      \* the last call of an inference function: what it returned or threw
    pc,        \* per request: the await the /submit handler is at
    request,   \* per request: req.body, req.file and what the parser and the tagger make of the file
    local,     \* per request: the handler's constants text, personalInfo, ..., publicUrl
    response,  \* per request: the response sent
    log,       \* per request: the calls that have completed, with their outcome
    bucket,    \* object storage: the body stored under each key
    sheet,     \* the spreadsheet: the rows appended
    mails,     \* the acknowledgement emails delivered
    posts      \* the POSTs the webhook received

inferVars == <<arg, nlp, last>>
submitVars == <<pc, request, local, response, log, bucket, sheet, mails, posts>>
vars == <<file, arg, nlp, last, pc, request, local, response, log, bucket, sheet, mails, posts>>

\* the requests in flight
Reqs == {"r1", "r2"}

None == [fn |-> "none"]
NoResponse == [status |-> 0]
NoRequest == [originalname |-> <<>>]
NoLocal == [text |-> Str(<<>>)]
\* a bucket without objects
Empty == <<>>

\* no inference function has been called
InferIdle ==
    /\ arg = Undefined
    /\ nlp = NoTagging
    /\ last = None

\* no request has arrived, the collaborators hold nothing
SubmitIdle ==
    /\ pc = [r \in Reqs |-> "idle"]
    /\ request = [r \in Reqs |-> NoRequest]
    /\ local = [r \in Reqs |-> NoLocal]
    /\ response = [r \in Reqs |-> NoResponse]
    /\ log = [r \in Reqs |-> <<>>]
    /\ bucket = Empty
    /\ sheet = <<>>
    /\ mails = <<>>
    /\ posts = <<>>

----------------------------------------------------------------------------
(* The inference functions, called on a text *)

InitInfer ==
    /\ file \in Files
    /\ arg \in Args
    /\ nlp \in Nlps(file, arg)
    /\ last = None
    /\ SubmitIdle

\* the function fn of the program f
Infer(f, fn, v, n) ==
    CASE fn = "extractPersonalInfo" ->
           (CASE f = "server.js" -> extractPersonalInfo(v, n)
              [] f = "part_000" -> extractPersonalInfo_part000(v, n)
              [] f = "part_001" -> extractPersonalInfo_part001(v))
      [] fn = "extractEducation" ->
           (CASE f = "server.js" -> extractEducation(v, n)
              [] f = "part_000" -> extractEducation_part000(v, n)
              [] f = "part_001" -> extractEducation_part001(v))
      [] fn = "extractSkills" ->
           (CASE f = "server.js" -> extractSkills(v, n)
              [] f = "part_000" -> extractSkills_part000(v, n)
              [] f = "part_001" -> extractSkills_part001(v))
      [] fn = "extractProjects" ->
           (CASE f = "server.js" -> extractProjects(v, n)
              [] f = "part_000" -> extractProjects_part000(v, n)
              [] f = "part_001" -> extractProjects_part001(v))

CallExtractPersonalInfo ==
    /\ last = None
    /\ last' = [fn |-> "extractPersonalInfo", ret |-> Infer(file, "extractPersonalInfo", arg, nlp)]
    /\ UNCHANGED <<file, arg, nlp>>
    /\ UNCHANGED submitVars

CallExtractEducation ==
    /\ last = None
    /\ last' = [fn |-> "extractEducation", ret |-> Infer(file, "extractEducation", arg, nlp)]
    /\ UNCHANGED <<file, arg, nlp>>
    /\ UNCHANGED submitVars

CallExtractSkills ==
    /\ last = None
    /\ last' = [fn |-> "extractSkills", ret |-> Infer(file, "extractSkills", arg, nlp)]
    /\ UNCHANGED <<file, arg, nlp>>
    /\ UNCHANGED submitVars

CallExtractProjects ==
    /\ last = None
    /\ last' = [fn |-> "extractProjects", ret |-> Infer(file, "extractProjects", arg, nlp)]
    /\ UNCHANGED <<file, arg, nlp>>
    /\ UNCHANGED submitVars

NextInfer ==
    \/ CallExtractPersonalInfo
    \/ CallExtractEducation
    \/ CallExtractSkills
    \/ CallExtractProjects

SpecInfer == InitInfer /\ [][NextInfer]_vars

----------------------------------------------------------------------------
(* The /submit handler *)

Lcv == <<"c","v">>
LCV == <<"C","V">>
Lpdf == <<"p","d","f">>
LPDF == <<"P","D","F">>
Ldocx == <<"d","o","c","x">>
Ltxt == <<"t","x","t">>
\* file.originalname of the uploads
FileNames == {Lcv \o <<".">> \o Lpdf, Lcv \o <<".">> \o Ldocx, Lcv \o <<".">> \o Ltxt, LCV \o <<".">> \o LPDF}

LResume ==
    Join(<<LJaneDoe, <<"j","a","n","e","@","x",".","i","o">>, <<"5","5","5","-","1","2","3","-","4","5","6","7">>,
           LSkills, LGo>>)
\* what the parser makes of the uploaded bytes: the text of the document,
\* or Corrupt when it rejects them
Corrupt == [kind |-> "corrupt"]
Docs == {Corrupt, Str(<<>>), Str(LResume)}

\* req.body of each request
Form ==
    [r \in Reqs |->
        IF r = "r1"
        THEN [name |-> Str(LAnnLee), email |-> Str(<<"a","n","n","@","y",".","i","o">>),
              phone |-> Str(<<"1","1","1">>)]
        ELSE [name |-> Str(<<"B","o","b">>), email |-> Str(<<"b","o","b","@","y",".","i","o">>),
              phone |-> Str(<<"2","2","2">>)]]

\* name.split('.').pop(): what follows the last '.', the whole name without one
FileExtension(name) ==
    LET dots == {i \in 1..Len(name) : name[i] = "."}
    IN  IF dots = {} THEN name
        ELSE SubSeq(name, (CHOOSE i \in dots : \A j \in dots : i >= j) + 1, Len(name))

\* `https://${BUCKET_NAME}.s3.amazonaws.com/${fileName}`
PublicUrl(fileName) == <<"https://", "BUCKET_NAME", ".s3.amazonaws.com/">> \o fileName

\* b || a: the operands the other way round
OrFormFirst(a, b) == IF b.kind = "string" /\ b.chars # <<>> THEN b ELSE a

\* a || b
Or(a, b) == IF a.kind = "string" /\ a.chars # <<>> THEN a ELSE b

\* the row without the public URL
RowWithoutUrl(r) ==
    <<Or(local[r].personalInfo.name, request[r].body.name),
      Or(local[r].personalInfo.email, request[r].body.email),
      Or(local[r].personalInfo.phone, request[r].body.phone),
      Str(Join(local[r].education)),
      Str(Join(local[r].skills)),
      Str(Join(local[r].projects))>>

\* the row of storeInGoogleSheets, server.js:378-386
Row(r) ==
    <<Or(local[r].personalInfo.name, request[r].body.name),
      Or(local[r].personalInfo.email, request[r].body.email),
      Or(local[r].personalInfo.phone, request[r].body.phone),
      local[r].publicUrl,
      Str(Join(local[r].education)),
      Str(Join(local[r].skills)),
      Str(Join(local[r].projects))>>

\* cvData, server.js:392-396
CvData(r) ==
    [name |-> Or(local[r].personalInfo.name, request[r].body.name),
     email |-> Or(local[r].personalInfo.email, request[r].body.email),
     phone |-> Or(local[r].personalInfo.phone, request[r].body.phone)]

\* the payload of sendWebhook, without its timestamp
Payload(cvData, publicUrl, education, skills, projects) ==
    [cv_data |-> [personal_info |-> [name |-> cvData.name, email |-> cvData.email, phone |-> cvData.phone],
                  education |-> education, skills |-> skills, projects |-> projects,
                  cv_public_link |-> publicUrl],
     metadata |-> [applicant_name |-> cvData.name, email |-> cvData.email,
                   status |-> "prod", cv_processed |-> TRUE]]

Success == [status |-> 200, message |-> "Application submitted successfully!"]
Failure == [status |-> 500, message |-> "Error processing application."]

Logged(r, call, outcome) == [log EXCEPT ![r] = Append(@, <<call, outcome>>)]

\* a catch block that logs the error and sends nothing
CatchWithoutResponse(r) ==
    /\ response' = response
    /\ pc' = [pc EXCEPT ![r] = "done"]

\* catch (error): res.status(500).json(...)
Catch(r) ==
    /\ response' = [response EXCEPT ![r] = Failure]
    /\ pc' = [pc EXCEPT ![r] = "done"]

\* whether the program rejects a file that is neither pdf nor docx
\* (server.js:364-366, part_000:599-601; part_001:239-243 has no else)
RejectsOthers == file \in {"server.js", "part_000"}
\* whether the program parses inside extractTextFromPDF / extractTextFromDOCX,
\* which catch the parser's error (part_000:596-598, part_001:240-242);
\* server.js:359-363 calls the parser itself
CatchesParser == file \in {"part_000", "part_001"}

\* the documents' texts, and the text of a document that was not parsed
DocTexts == (Docs \ {Corrupt}) \cup {Str(<<>>)}
Functions == {"extractPersonalInfo", "extractEducation", "extractSkills", "extractProjects"}
\* what the four inference functions of each program make of each text,
\* under each tagging of it
Inferred ==
    [f \in Files |->
        [text \in DocTexts |->
            [n \in Nlps(f, text) |->
                [fn \in Functions |-> Infer(f, fn, text, n)]]]]

\* server.js:369-375: with the results of the four inference functions on
\* text, uploadToS3 is called and awaited; a function that throws ends in catch
Continue(r, text, results) ==
    IF \E fn \in Functions : results[fn].kind = "throw"
    THEN /\ Catch(r)
         /\ local' = [local EXCEPT ![r] = [text |-> text]]
    ELSE /\ local' = [local EXCEPT ![r] =
                        [text |-> text,
                         personalInfo |-> results["extractPersonalInfo"].value,
                         education |-> results["extractEducation"].value,
                         skills |-> results["extractSkills"].value,
                         projects |-> results["extractProjects"].value]]
         /\ pc' = [pc EXCEPT ![r] = "uploadToS3"]
         /\ response' = response

InferAndUpload(r, req, text) == Continue(r, text, Inferred[file][text][req.nlp])

\* POST /submit arrives: the handler runs to its first await
Submit(r) ==
    /\ pc[r] = "idle"
    /\ \E name \in FileNames, doc \in Docs :
       \E n \in IF doc = Corrupt THEN {NoTagging} ELSE Nlps(file, doc) :
         LET req == [originalname |-> name, buffer |-> r, doc |-> doc, nlp |-> n, body |-> Form[r]]
             fileExtension == FileExtension(name)
         IN  /\ request' = [request EXCEPT ![r] = req]
             /\ IF fileExtension \in {Lpdf, Ldocx}
                THEN /\ pc' = [pc EXCEPT ![r] = "parse"]
                     /\ UNCHANGED <<local, response>>
                ELSE IF RejectsOthers
                THEN /\ Catch(r)
                     /\ UNCHANGED local
                ELSE InferAndUpload(r, req, Str(<<>>))
    /\ UNCHANGED <<log, bucket, sheet, mails, posts>>
    /\ UNCHANGED <<file, arg, nlp, last>>

\* the parser (pdf or mammoth.extractRawText) settles
Parsed(r) ==
    /\ pc[r] = "parse"
    /\ log' = Logged(r, "parse", IF request[r].doc = Corrupt THEN "throw" ELSE "ok")
    /\ IF request[r].doc = Corrupt /\ ~CatchesParser
       THEN /\ Catch(r)
            /\ UNCHANGED local
       ELSE InferAndUpload(r, request[r],
                           IF request[r].doc = Corrupt THEN Str(<<>>) ELSE request[r].doc)
    /\ UNCHANGED <<request, bucket, sheet, mails, posts>>
    /\ UNCHANGED <<file, arg, nlp, last>>

\* an uploadToS3 whose key is the file name prefixed by the request
UploadedUnderOwnKey(r) ==
    /\ pc[r] = "uploadToS3"
    /\ \/ /\ bucket' = ((<<r>> \o request[r].originalname) :> request[r].buffer) @@ bucket
          /\ local' = [local EXCEPT ![r] =
                          [f \in DOMAIN @ \cup {"publicUrl"} |->
                              IF f = "publicUrl" THEN PublicUrl(<<r>> \o request[r].originalname)
                              ELSE @[f]]]
          /\ log' = Logged(r, "uploadToS3", "ok")
          /\ pc' = [pc EXCEPT ![r] = "storeInGoogleSheets"]
          /\ UNCHANGED response
       \/ /\ log' = Logged(r, "uploadToS3", "throw")
          /\ Catch(r)
          /\ UNCHANGED <<bucket, local>>
    /\ UNCHANGED <<request, sheet, mails, posts>>
    /\ UNCHANGED <<file, arg, nlp, last>>

\* s3Client.send settles: uploadToS3 returns the public URL or throws
Uploaded(r) ==
    /\ pc[r] = "uploadToS3"
    /\ \/ /\ bucket' = (request[r].originalname :> request[r].buffer) @@ bucket
          /\ local' = [local EXCEPT ![r] =
                          [f \in DOMAIN @ \cup {"publicUrl"} |->
                              IF f = "publicUrl" THEN PublicUrl(request[r].originalname) ELSE @[f]]]
          /\ log' = Logged(r, "uploadToS3", "ok")
          /\ pc' = [pc EXCEPT ![r] = "storeInGoogleSheets"]
          /\ UNCHANGED response
       \/ /\ log' = Logged(r, "uploadToS3", "throw")
          /\ Catch(r)
          /\ UNCHANGED <<bucket, local>>
    /\ UNCHANGED <<request, sheet, mails, posts>>
    /\ UNCHANGED <<file, arg, nlp, last>>

\* a storeInGoogleSheets that catches the error of the append as sendEmail
\* catches the error of sendMail
StoredCatchingError(r) ==
    /\ pc[r] = "storeInGoogleSheets"
    /\ \/ /\ sheet' = Append(sheet, [by |-> r, row |-> Row(r)])
          /\ log' = Logged(r, "storeInGoogleSheets", "ok")
       \/ /\ log' = Logged(r, "storeInGoogleSheets", "throw")
          /\ UNCHANGED sheet
    /\ pc' = [pc EXCEPT ![r] = "sendEmail"]
    /\ UNCHANGED <<request, local, response, bucket, mails, posts>>
    /\ UNCHANGED <<file, arg, nlp, last>>

\* sheets.spreadsheets.values.append settles
Stored(r) ==
    /\ pc[r] = "storeInGoogleSheets"
    /\ \/ /\ sheet' = Append(sheet, [by |-> r, row |-> Row(r)])
          /\ log' = Logged(r, "storeInGoogleSheets", "ok")
          /\ pc' = [pc EXCEPT ![r] = "sendEmail"]
          /\ UNCHANGED response
       \/ /\ log' = Logged(r, "storeInGoogleSheets", "throw")
          /\ Catch(r)
          /\ UNCHANGED sheet
    /\ UNCHANGED <<request, local, bucket, mails, posts>>
    /\ UNCHANGED <<file, arg, nlp, last>>

\* a handler that sends the acknowledgement to the merged email of the row
EmailedToMerged(r) ==
    /\ pc[r] = "sendEmail"
    /\ \/ /\ mails' = Append(mails, [by |-> r, to |-> CvData(r).email])
          /\ log' = Logged(r, "sendEmail", "ok")
       \/ /\ log' = Logged(r, "sendEmail", "throw")
          /\ UNCHANGED mails
    /\ pc' = [pc EXCEPT ![r] = "sendWebhook"]
    /\ UNCHANGED <<request, local, response, bucket, sheet, posts>>
    /\ UNCHANGED <<file, arg, nlp, last>>

\* transporter.sendMail settles: sendEmail catches its error
Emailed(r) ==
    /\ pc[r] = "sendEmail"
    /\ \/ /\ mails' = Append(mails, [by |-> r, to |-> request[r].body.email])
          /\ log' = Logged(r, "sendEmail", "ok")
       \/ /\ log' = Logged(r, "sendEmail", "throw")
          /\ UNCHANGED mails
    /\ pc' = [pc EXCEPT ![r] = "sendWebhook"]
    /\ UNCHANGED <<request, local, response, bucket, sheet, posts>>
    /\ UNCHANGED <<file, arg, nlp, last>>

\* fetch settles: the webhook answers with an OK or another status, or
\* fetch throws; then the success response is sent
Posted(r) ==
    /\ pc[r] = "sendWebhook"
    /\ \/ \E ok \in BOOLEAN :
            /\ posts' = Append(posts,
                          [by |-> r, candidate |-> request[r].body.email,
                           body |-> Payload(CvData(r), local[r].publicUrl, local[r].education,
                                            local[r].skills, local[r].projects)])
            /\ log' = Logged(r, "sendWebhook", IF ok THEN "ok" ELSE "not ok")
            /\ response' = [response EXCEPT ![r] = Success]
            /\ pc' = [pc EXCEPT ![r] = "done"]
       \/ /\ log' = Logged(r, "sendWebhook", "throw")
          /\ Catch(r)
          /\ UNCHANGED posts
    /\ UNCHANGED <<request, local, bucket, sheet, mails>>
    /\ UNCHANGED <<file, arg, nlp, last>>

Init ==
    /\ file \in Files
    /\ InferIdle
    /\ SubmitIdle

Next ==
    \E r \in Reqs :
        \/ Submit(r)
        \/ Parsed(r)
        \/ Uploaded(r)
        \/ Stored(r)
        \/ Emailed(r)
        \/ Posted(r)

Spec == Init /\ [][Next]_vars

----------------------------------------------------------------------------
(* Properties of the inference functions, under SpecInfer *)

Called(fn) == last # None /\ last.fn = fn
Returned == last # None /\ last.ret.kind = "return"
Sections == {"extractEducation", "extractSkills", "extractProjects"}
\* the text has the line l
HasLine(v, l) == v.kind = "string" /\ \E k \in 1..Len(Split(v.chars)) : Split(v.chars)[k] = l

\* C5: for any text containing a line "Name: Jane Doe", extractPersonalInfo
\* of server.js returns name == "Jane Doe", whatever else the text contains
\* before or after that line.
C5_LabeledNameWins ==
    (file = "server.js" /\ Called("extractPersonalInfo") /\ HasLine(arg, LNameJaneDoe))
        => (Returned /\ last.ret.value.name = Str(LJaneDoe))

\* C6: for the text "Skills\nPython\nGo\nEducation\n..." and no tagging
\* matches, extractSkills returns exactly ["Python", "Go"].
C6_SkillsExample ==
    (Called("extractSkills") /\ arg = Str(SkillsExample) /\ nlp = NoTagging)
        => last.ret = Return(<<LPython, LGo>>)

\* the headers of the sections other than the one fn extracts
OtherHeaders(fn) ==
    CASE fn = "extractEducation" -> SkillsHeaders \o ProjectsHeaders
      [] fn = "extractSkills" -> EducationHeaders \o ProjectsHeaders
      [] fn = "extractProjects" -> EducationHeaders \o SkillsHeaders

\* C7: in the regex fallback of extractEducation, extractSkills and
\* extractProjects of server.js the captured span ends before the next
\* header of another section: no entry of the result holds a header of the
\* education, skills, projects or qualifications vocabulary of another section.
C7_EveryHeaderTerminates ==
    (file = "server.js" /\ last # None /\ last.fn \in Sections /\ arg.kind = "string" /\ nlp = NoTagging)
        => \A k \in 1..Len(last.ret.value) :
              ~Exec(Alt(OtherHeaders(last.fn)), last.ret.value[k]).matched

\* C8: for every string text, extractPersonalInfo returns an object whose
\* name, email and phone are all strings, never undefined.
C8_FieldsAreStrings ==
    (Called("extractPersonalInfo") /\ arg.kind = "string")
        => /\ Returned
           /\ last.ret.value.name.kind = "string"
           /\ last.ret.value.email.kind = "string"
           /\ last.ret.value.phone.kind = "string"

\* C9: the inference functions of server.js never throw when called with a
\* number, an object, null or undefined.
C9_NeverThrows ==
    (file = "server.js" /\ last # None /\ arg.kind \in {"number", "object", "null", "undefined"})
        => Returned

NoInfo == [name |-> Str(<<>>), email |-> Str(<<>>), phone |-> Str(<<>>)]

\* C10: when a number or an object is passed as text, extractPersonalInfo of
\* server.js returns name, email and phone all empty and each section
\* extractor returns an empty sequence.
C10_NonTextGivesDefaults ==
    (file = "server.js" /\ last # None /\ arg.kind \in {"number", "object"})
        => last.ret = Return(IF last.fn = "extractPersonalInfo" THEN NoInfo ELSE <<>>)

----------------------------------------------------------------------------
(* Properties of the /submit handler, under Spec *)

Arrived(r) == pc[r] # "idle"
\* the extension is neither "pdf" nor "docx"
Unsupported(r) == Arrived(r) /\ FileExtension(request[r].originalname) \notin {Lpdf, Ldocx}
\* the call completed, with this outcome
Did(r, call, outcome) == \E k \in 1..Len(log[r]) : log[r][k] = <<call, outcome>>
Performed(r, call) == \E k \in 1..Len(log[r]) : log[r][k][1] = call
Downstream == {"uploadToS3", "storeInGoogleSheets", "sendEmail", "sendWebhook"}
\* no collaborator failed
AllWent(r) == \A call \in Downstream : Did(r, call, "ok")
RowsBy(r) == SelectSeq(sheet, LAMBDA e : e.by = r)
MailsBy(r) == SelectSeq(mails, LAMBDA e : e.by = r)
PostsBy(r) == SelectSeq(posts, LAMBDA e : e.by = r)

\* C1: when the parser fails on a pdf or docx file, the text is the empty
\* string and the pipeline of server.js continues: unless a collaborator
\* fails, the file is uploaded, one row is appended, the email and the
\* webhook are sent and the response is the success response, with name,
\* email and phone taken from the form.
C1_ParseFailureContinues ==
    \A r \in Reqs :
        (file = "server.js" /\ Did(r, "parse", "throw"))
            => /\ response[r] # Failure
               /\ local[r].text = Str(<<>>)
               /\ pc[r] = "done" => /\ response[r] = Success
                                    /\ request[r].originalname \in DOMAIN bucket
                                    /\ Len(RowsBy(r)) = 1
                                    /\ RowsBy(r)[1].row[1] = request[r].body.name
                                    /\ RowsBy(r)[1].row[2] = request[r].body.email
                                    /\ RowsBy(r)[1].row[3] = request[r].body.phone
                                    /\ Len(PostsBy(r)) = 1

\* C2: a submission whose extension is neither "pdf" nor "docx" is rejected:
\* the success response is never sent and no downstream step (upload,
\* append, email, webhook) is performed.
C2_UnsupportedRejected ==
    \A r \in Reqs :
        Unsupported(r)
            => /\ response[r] # Success
               /\ pc[r] \notin Downstream
               /\ \A call \in Downstream : ~Performed(r, call)

\* C3: when the extension is unsupported, the response of server.js is a
\* client error (a 4xx status).
C3_UnsupportedIsClientError ==
    \A r \in Reqs :
        (file = "server.js" /\ Unsupported(r) /\ response[r] # NoResponse)
            => response[r].status \in 400..499

\* C4: each downstream step's failure is isolated in server.js: once the
\* handler is done, every one of upload, append, email and webhook has been
\* performed, whichever of them failed.
C4_FailuresIsolated ==
    \A r \in Reqs :
        (file = "server.js" /\ pc[r] = "done" /\ Performed(r, "uploadToS3"))
            => \A call \in Downstream : Performed(r, call)

\* the extracted value x when it is a non-empty string, the form's value f otherwise
Preferred(x, f) == IF x.kind = "string" /\ x.chars # <<>> THEN x ELSE f
\* the name, email and phone that request r hands on
Merged(r) ==
    [name |-> Preferred(local[r].personalInfo.name, request[r].body.name),
     email |-> Preferred(local[r].personalInfo.email, request[r].body.email),
     phone |-> Preferred(local[r].personalInfo.phone, request[r].body.phone)]
\* the document of request r gave no name, no email and no phone
NothingExtracted(r) ==
    \A f \in {"name", "email", "phone"} :
        local[r].personalInfo[f].kind # "string" \/ local[r].personalInfo[f].chars = <<>>

\* C11: in every spreadsheet row and webhook payload, each of name, email
\* and phone is the value extracted from the document when that is non-empty
\* and the form's value otherwise; when nothing is extracted and every
\* collaborator succeeds, the submission succeeds with the form's values.
C11_ExtractedElseForm ==
    \A r \in Reqs :
        /\ \A k \in 1..Len(sheet) :
              sheet[k].by = r
                  => <<sheet[k].row[1], sheet[k].row[2], sheet[k].row[3]>>
                        = <<Merged(r).name, Merged(r).email, Merged(r).phone>>
        /\ \A k \in 1..Len(posts) :
              posts[k].by = r
                  => /\ posts[k].body.cv_data.personal_info = Merged(r)
                     /\ posts[k].body.metadata.applicant_name = Merged(r).name
                     /\ posts[k].body.metadata.email = Merged(r).email
        /\ (pc[r] = "done" /\ AllWent(r) /\ NothingExtracted(r))
              => /\ response[r] = Success
                 /\ Len(RowsBy(r)) = 1
                 /\ SubSeq(RowsBy(r)[1].row, 1, 3)
                       = <<request[r].body.name, request[r].body.email, request[r].body.phone>>
                 /\ Len(PostsBy(r)) = 1
                 /\ PostsBy(r)[1].body.cv_data.personal_info = request[r].body

\* one submission stored with the form's values, nothing being extracted,
\* and one stored with a name extracted from the document
C11_Witness ==
    /\ pc["r1"] = "done" /\ AllWent("r1") /\ NothingExtracted("r1")
    /\ RowsBy("r1")[1].row[1] = Form["r1"].name
    /\ pc["r2"] = "done" /\ AllWent("r2") /\ ~NothingExtracted("r2")
    /\ RowsBy("r2")[1].row[1] = local["r2"].personalInfo.name
    /\ RowsBy("r2")[1].row[1] # Form["r2"].name
    /\ PostsBy("r2")[1].body.metadata.applicant_name = local["r2"].personalInfo.name

\* s in lower case
Lowered(s) == [k \in 1..Len(s) |-> ToLower(s[k])]

\* C12: the extension that chooses the parser is lower-cased: in server.js a
\* file whose extension is "pdf" or "docx" in any case ("CV.PDF") goes to the
\* parser and is not treated as unsupported.
C12_ExtensionLowerCased ==
    \A r \in Reqs :
        (file = "server.js" /\ Arrived(r)
            /\ Lowered(FileExtension(request[r].originalname)) \in {Lpdf, Ldocx})
                => (pc[r] = "parse" \/ Performed(r, "parse"))

----------------------------------------------------------------------------
(* Properties of extractPersonalInfo, under SpecInfer *)

\* [A-Z][a-z]+(\s+[A-Z][a-z]+)+ without the i flag
CapitalizedWord == Cat(<<Cls(Upper), Plus(Cls(Lower))>>)
CapitalizedWords == Cat(<<CapitalizedWord, Plus(Cat(<<Plus(Cls(Space)), CapitalizedWord>>))>>)
\* the lines of t that are not blank, trimmed
NonEmptyLines(t) == SelectSeq(MapTrim(Split(t)), LAMBDA l : l # <<>>)
\* text with a line that is not blank, without a name label and without
\* two capitalized words in a row, in which the tagger finds no person
Unlabeled ==
    /\ arg.kind = "string"
    /\ nlp.person = <<>>
    /\ NonEmptyLines(arg.chars) # <<>>
    /\ ~Exec(Alt(NameLabels), arg.chars).matched
    /\ ~Exec(CapitalizedWords, arg.chars).matched

\* C13: for text with no name label, no capitalized two-word sequence and no
\* person match, extractPersonalInfo of server.js returns as name exactly the
\* trimmed first non-empty line, also for lower-case words and for several
\* single-word lines.
C13_FirstLineFallback ==
    (file = "server.js" /\ Called("extractPersonalInfo") /\ Unlabeled)
        => (Returned /\ last.ret.value.name = Str(NonEmptyLines(arg.chars)[1]))

\* phoneRegex matches in the text, its label group included
LabeledPhone ==
    /\ arg.kind = "string"
    /\ Exec(phoneRegex, arg.chars).matched
    /\ Exec(phoneRegex, arg.chars).caps[1] # NoCap

\* C14: when extractPersonalInfo of server.js matches a phone number preceded
\* by a label, the returned phone holds only the digits and punctuation of
\* the number: it starts with the number, not with label text, a separator
\* or whitespace.
C14_PhoneLabelStripped ==
    (file = "server.js" /\ Called("extractPersonalInfo") /\ LabeledPhone)
        => /\ Returned
           /\ last.ret.value.phone.chars # <<>>
           /\ last.ret.value.phone.chars[1] \in Digit \cup {"+", "("}
           /\ \A k \in 1..Len(last.ret.value.phone.chars) :
                 last.ret.value.phone.chars[k] \in Digit \cup {"+", "(", ")", "-", ".", " "}

\* C15: when the text has an unlabeled address and a line "Email:" with
\* another address, extractPersonalInfo of server.js returns the labeled
\* address, whichever comes first.
C15_LabeledEmailPreferred ==
    (file = "server.js" /\ Called("extractPersonalInfo") /\ HasLine(arg, LEmailAnn))
        => (Returned /\ last.ret.value.email = Str(LAnnEmail))

\* the text has no "Email" label
NoEmailLabel == arg.kind = "string" /\ ~Exec(Alt(EmailLabels), arg.chars).matched

\* C16 as stated: for any text that contains "jane.doe@example.com" and no
\* "Email:" label, extractPersonalInfo returns that address as email.
C16_AddressAnywhere ==
    (file = "server.js" /\ Called("extractPersonalInfo") /\ NoEmailLabel /\ Occurs(LJaneEmail, arg.chars))
        => (Returned /\ last.ret.value.email = Str(LJaneEmail))

\* "jane.doe@example.com" stands in t as a word of its own, with no '@' before it
FirstAddress(t) ==
    \E i \in 1..(Len(t) - Len(LJaneEmail) + 1) :
        /\ SubSeq(t, i, i + Len(LJaneEmail) - 1) = LJaneEmail
        /\ \A j \in 1..(i - 1) : t[j] # "@"
        /\ i > 1 => t[i - 1] \in Space
        /\ i + Len(LJaneEmail) <= Len(t) => t[i + Len(LJaneEmail)] \in Space

\* C16 amended: for any text without "Email" label in which
\* "jane.doe@example.com" is the first address, standing as a word of its
\* own, extractPersonalInfo of server.js and of part_000 returns it as email.
C16_FirstAddress ==
    (file \in {"server.js", "part_000"} /\ Called("extractPersonalInfo") /\ NoEmailLabel
        /\ FirstAddress(arg.chars))
        => (Returned /\ last.ret.value.email = Str(LJaneEmail))

\* the address is returned from the second line of a text and ahead of
\* another address
C16_Witness ==
    /\ file = "server.js" /\ Called("extractPersonalInfo")
    /\ arg \in {Str(Join(<<LPhoneSpaced, LJaneEmail, LBobEmail>>))}
    /\ NoEmailLabel /\ FirstAddress(arg.chars)
    /\ last.ret.value.email = Str(LJaneEmail)

----------------------------------------------------------------------------
(* Properties of the section extractors, under SpecInfer *)

\* what the tagger found for the section that fn extracts
Found(fn) ==
    CASE fn = "extractEducation" -> nlp.education
      [] fn = "extractSkills" -> nlp.skills
      [] fn = "extractProjects" -> nlp.projects
\* the tier-1 matches: the tag matches followed by the header matches
Matches(fn) == Found(fn).tags \o Found(fn).heads
\* the first place of x in xs
FirstAt(xs, x) == CHOOSE i \in 1..Len(xs) : xs[i] = x /\ \A j \in 1..(i - 1) : xs[j] # x

\* C17: the tier-1 result of extractEducation, extractSkills and
\* extractProjects holds each distinct string of the tier-1 matches exactly
\* once, in the order of its first occurrence among them.
C17_TierOneDeduplicates ==
    (file \in {"server.js", "part_000"} /\ last # None /\ last.fn \in Sections
        /\ arg.kind = "string" /\ Matches(last.fn) # <<>>)
        => /\ Returned
           /\ {last.ret.value[i] : i \in 1..Len(last.ret.value)}
                 = {Matches(last.fn)[i] : i \in 1..Len(Matches(last.fn))}
           /\ \A i, j \in 1..Len(last.ret.value) :
                 i < j => /\ last.ret.value[i] # last.ret.value[j]
                          /\ FirstAt(Matches(last.fn), last.ret.value[i])
                                < FirstAt(Matches(last.fn), last.ret.value[j])

\* "Education" is matched by the tag and twice by the header vocabulary,
\* and is returned once, after "BSc"
C17_Witness ==
    /\ file = "server.js" /\ Called("extractEducation") /\ arg = Str(SkillsExample)
    /\ Matches("extractEducation") = <<LBSc, LEducation, LEducation, LEducation>>
    /\ last.ret = Return(<<LBSc, LEducation>>)

\* the headers of the section that fn extracts
OwnHeaders(fn) ==
    CASE fn = "extractEducation" -> EducationHeaders
      [] fn = "extractSkills" -> SkillsHeaders
      [] fn = "extractProjects" -> ProjectsHeaders
\* a header of the section occurs in t, in any case
HeaderOccurs(fn, t) ==
    \E k \in 1..Len(OwnHeaders(fn)) : Occurs(Lowered(OwnHeaders(fn)[k].s), Lowered(t))

\* C18: for every string text in which no header of the section's vocabulary
\* occurs and in which the tagger finds nothing, the section extractor
\* returns an empty sequence and does not throw.
C18_NoHeaderNoEntries ==
    (last # None /\ last.fn \in Sections /\ arg.kind = "string"
        /\ Found(last.fn) = NoFound /\ ~HeaderOccurs(last.fn, arg.chars))
        => last.ret = Return(<<>>)

\* a text with lines and headers of other sections only
C18_Witness ==
    /\ file = "server.js" /\ Called("extractEducation") /\ nlp = NoTagging
    /\ arg = Str(Join(<<LSkills, LGo, LWorkExperience>>))
    /\ ~HeaderOccurs("extractEducation", arg.chars)
    /\ last.ret = Return(<<>>)

----------------------------------------------------------------------------
(* Properties of the spreadsheet rows, under Spec *)

----------------------------------------------------------------------------
(* Properties of the regex fallback of the section extractors, under SpecInfer *)

\* l is a header of the section that fn extracts, in any case
IsHeader(fn, l) == \E k \in 1..Len(OwnHeaders(fn)) : Lowered(OwnHeaders(fn)[k].s) = Lowered(l)
\* xs is a run of consecutive lines of ls that starts right after the first
\* header line of fn
FollowsHeader(fn, xs, ls) ==
    \E h \in 1..Len(ls) :
        /\ IsHeader(fn, ls[h])
        /\ \A g \in 1..(h - 1) : ~IsHeader(fn, ls[g])
        /\ h + Len(xs) <= Len(ls)
        /\ xs = SubSeq(ls, h + 1, h + Len(xs))

\* C21: whenever the regex fallback of a section extractor matches, its
\* result is the lines that follow the matched header: the header is not an
\* element, every element is trimmed and non-empty, the elements keep the
\* order of the document and lines that repeat are kept.  Stated for the
\* education and the project extractors.
C21_FallbackLines ==
    (last # None /\ last.fn \in {"extractEducation", "extractProjects"}
        /\ arg.kind = "string" /\ Found(last.fn) = NoFound
        /\ Returned /\ last.ret.value # <<>>)
        => /\ \A k \in 1..Len(last.ret.value) :
                 /\ last.ret.value[k] # <<>>
                 /\ Trim(last.ret.value[k]) = last.ret.value[k]
           /\ FollowsHeader(last.fn, last.ret.value, NonEmptyLines(arg.chars))

----------------------------------------------------------------------------
(* Properties of the order of the handler's steps, under Spec *)

Responded(r) == response[r] # NoResponse
\* the outcomes of the downstream calls of r, in the order they settled
DownstreamLog(r) == SelectSeq(log[r], LAMBDA e : e[1] \in Downstream)
\* the four downstream calls completed one after the other
InOrder(r) ==
    /\ Len(DownstreamLog(r)) = 4
    /\ DownstreamLog(r)[1] = <<"uploadToS3", "ok">>
    /\ DownstreamLog(r)[2] = <<"storeInGoogleSheets", "ok">>
    /\ DownstreamLog(r)[3] \in {<<"sendEmail", "ok">>, <<"sendEmail", "throw">>}
    /\ DownstreamLog(r)[4] \in {<<"sendWebhook", "ok">>, <<"sendWebhook", "not ok">>}
\* the four inference functions have returned for r
InferenceFinished(r) ==
    {"personalInfo", "education", "skills", "projects"} \subseteq DOMAIN local[r]
\* the awaits of the handler, each of which ends when its collaborator
\* returns or throws, and the place of each position in the handler
Awaits == {"parse"} \cup Downstream
Place(p) ==
    CASE p = "idle" -> 0
      [] p = "parse" -> 1
      [] p = "uploadToS3" -> 2
      [] p = "storeInGoogleSheets" -> 3
      [] p = "sendEmail" -> 4
      [] p = "sendWebhook" -> 5
      [] p = "done" -> 6
ResponseInOrder ==
    \A r \in Reqs :
        /\ response[r] \in {NoResponse, Success, Failure}
        /\ (Arrived(r) /\ ~Responded(r)) => pc[r] \in Awaits
        /\ pc[r] = "done" => Responded(r)
        /\ response[r] = Success => InOrder(r)
        /\ (pc[r] \in Downstream \/ DownstreamLog(r) # <<>>) => InferenceFinished(r)
\* a response is never sent again or changed, and whenever a collaborator
\* settles the handler moves forward
RespondsOnce ==
    \A r \in Reqs :
        /\ Responded(r) => response'[r] = response[r]
        /\ pc'[r] # pc[r] => Place(pc'[r]) > Place(pc[r])

----------------------------------------------------------------------------
(* Properties of the failures of the downstream calls, under Spec *)

InStorage(r) == request[r].originalname \in DOMAIN bucket
AppendFailed(r) == Did(r, "uploadToS3", "ok") /\ Did(r, "storeInGoogleSheets", "throw")
WebhookFailed(r) == Did(r, "sendWebhook", "throw")

\* C23: when the spreadsheet append throws after the upload succeeded, the
\* response is the 500 error, neither the email nor the webhook is sent, and
\* the uploaded object stays in storage; when the webhook POST throws, the
\* response is the 500 error and the appended row and the sent email stay.
C23_NothingUndone ==
    \A r \in Reqs :
        /\ AppendFailed(r) =>
              /\ response[r] = Failure
              /\ ~Performed(r, "sendEmail") /\ MailsBy(r) = <<>>
              /\ ~Performed(r, "sendWebhook") /\ PostsBy(r) = <<>>
              /\ RowsBy(r) = <<>>
              /\ InStorage(r)
        /\ WebhookFailed(r) =>
              /\ response[r] = Failure
              /\ PostsBy(r) = <<>>
              /\ Len(RowsBy(r)) = 1
              /\ Did(r, "sendEmail", "ok") => Len(MailsBy(r)) = 1
              /\ InStorage(r)
\* one request failed at the append and another, whose email was sent, at the
\* webhook; both handlers have finished
C23_Witness ==
    \E r, q \in Reqs :
        /\ AppendFailed(r) /\ pc[r] = "done" /\ InStorage(r)
        /\ WebhookFailed(q) /\ pc[q] = "done"
        /\ Did(q, "sendEmail", "ok") /\ Len(MailsBy(q)) = 1 /\ Len(RowsBy(q)) = 1

\* the calls whose error reaches the catch block of the handler
Fatal == {"uploadToS3", "storeInGoogleSheets", "sendWebhook"}
FatalThrown(r) == \E call \in Fatal : Did(r, call, "throw")

\* C24: a failed acknowledgement email and a webhook that answers with a
\* status that is not OK do not change the outcome, which is the success
\* response; only an error thrown by the upload, the append or the webhook
\* POST gives the error response.  Stated for the handler of server.js.
C24_OnlyFatalErrors ==
    file = "server.js" => \A r \in Reqs :
        /\ (pc[r] = "done" /\ ~FatalThrown(r)
                /\ (Did(r, "sendEmail", "throw") \/ Did(r, "sendWebhook", "not ok")))
              => response[r] = Success
        /\ response[r] = Failure => FatalThrown(r)

----------------------------------------------------------------------------
(* Properties of the addressee of the email and of the webhook, under Spec *)

\* the document of r gave an email other than the one of its form
ExtractedOtherEmail(r) ==
    /\ InferenceFinished(r)
    /\ local[r].personalInfo.email.kind = "string"
    /\ local[r].personalInfo.email.chars # <<>>
    /\ local[r].personalInfo.email # Form[r].email

\* C25: the destination of the acknowledgement email and the X-Candidate-Email
\* header of the webhook are the email of the form, also when another
\* non-empty email was extracted from the document and is the one written to
\* the row and to the payload.
C25_FormEmailAddressed ==
    /\ \A k \in 1..Len(mails) : mails[k].to = Form[mails[k].by].email
    /\ \A k \in 1..Len(posts) : posts[k].candidate = Form[posts[k].by].email
    /\ \A r \in Reqs : ExtractedOtherEmail(r) =>
            /\ \A k \in 1..Len(RowsBy(r)) : RowsBy(r)[k].row[2] = local[r].personalInfo.email
            /\ \A k \in 1..Len(PostsBy(r)) :
                   /\ PostsBy(r)[k].body.cv_data.personal_info.email = local[r].personalInfo.email
                   /\ PostsBy(r)[k].body.metadata.email = local[r].personalInfo.email
\* a request whose document holds another email than its form got its row, its
\* mail and its POST
C25_Witness ==
    \E r \in Reqs :
        /\ ExtractedOtherEmail(r)
        /\ Len(RowsBy(r)) = 1 /\ Len(MailsBy(r)) = 1 /\ Len(PostsBy(r)) = 1
        /\ RowsBy(r)[1].row[2] # Form[r].email
        /\ MailsBy(r)[1].to = Form[r].email
        /\ PostsBy(r)[1].candidate = Form[r].email

----------------------------------------------------------------------------
(* Properties of two uploads of the same file name, under Spec *)

SameName(r, q) == Arrived(r) /\ Arrived(q) /\ request[r].originalname = request[q].originalname
HasUploaded(r) == Did(r, "uploadToS3", "ok")
\* requests with the same file name have one key in storage, one public URL,
\* and that URL in their rows and in their payloads
OneKeyOneUrl ==
    /\ DOMAIN bucket = {request[p].originalname : p \in {p \in Reqs : HasUploaded(p)}}
    /\ \A r, q \in Reqs : (SameName(r, q) /\ HasUploaded(r) /\ HasUploaded(q)) =>
        /\ local[r].publicUrl = local[q].publicUrl
        /\ \A i \in 1..Len(RowsBy(r)), j \in 1..Len(RowsBy(q)) :
               RowsBy(r)[i].row[4] = RowsBy(q)[j].row[4]
        /\ \A i \in 1..Len(PostsBy(r)), j \in 1..Len(PostsBy(q)) :
               PostsBy(r)[i].body.cv_data.cv_public_link = PostsBy(q)[j].body.cv_data.cv_public_link
        /\ \A i \in 1..Len(RowsBy(r)), j \in 1..Len(PostsBy(q)) :
               RowsBy(r)[i].row[4] = PostsBy(q)[j].body.cv_data.cv_public_link
\* an upload that succeeds leaves its bytes under the key of its file name,
\* whatever was there, and adds no other key
UploadReplaces ==
    \A r \in Reqs : (~HasUploaded(r) /\ HasUploaded(r)') =>
        /\ DOMAIN bucket' = DOMAIN bucket \cup {request[r].originalname}
        /\ bucket'[request[r].originalname] = request[r].buffer
        /\ \A key \in DOMAIN bucket \ {request[r].originalname} : bucket'[key] = bucket[key]

\* C26: the storage key and the public URL of an upload depend on the
\* original name of the file only: two submissions with the same file name, in
\* any interleaving, write the same key, the later upload replaces the earlier
\* object, and both rows and both payloads carry the same public URL.
C26_SameNameSameObject == []OneKeyOneUrl /\ [][UploadReplaces]_vars
\* two requests with the same file name went through; the one whose row was
\* appended second had uploaded first, and storage holds the other's bytes
C26_Witness ==
    \E r, q \in Reqs :
        /\ r # q /\ SameName(r, q)
        /\ AllWent(r) /\ AllWent(q)
        /\ Len(sheet) = 2 /\ sheet[1].by = r /\ sheet[1].row[4] = sheet[2].row[4]
        /\ Len(posts) = 2
        /\ posts[1].body.cv_data.cv_public_link = posts[2].body.cv_data.cv_public_link
        /\ DOMAIN bucket = {request[r].originalname}
        /\ bucket[request[r].originalname] = request[r].buffer

====
